---------------------------- MODULE Spec2Model ----------------------------
(***************************************************************************)
(* Sentiment analysis of tweets (Nitter + VADER).                          *)
(*                                                                         *)
(* The repository holds three scripts, each its own program:               *)
(*   src/src/analyzer.py  the window with the search button; each click    *)
(*                        runs run_scraper_and_analyze                     *)
(*   src/main.py          scores tweets.json once at import and shows it   *)
(*   src/analytics.py     recall / accuracy of a fixed confusion matrix    *)
(* A behaviour is the run of one of them (variable program).               *)
(*                                                                         *)
(* Compound scores are VADER's, rounded to four decimals: the model keeps  *)
(* them as integers in units of 0.0001 (0.05 is 500).  Python strings      *)
(* that the code inspects (the search term, the depth, the html of the     *)
(* panels) are sequences, so that strip(), int(), + and `or` are computed. *)
(***************************************************************************)
EXTENDS Integers, Sequences, FiniteSets, Bags, TLC

VARIABLES
    program,            \* which script runs
    pc,                 \* position in that script / in the click handler
    argv,               \* analyzer.py: <<term, depth>> handed to the scraper
    tweets,             \* the list loaded from tweets.json
    idx,                \* position of the scoring loop in tweets (1-based)
    tweet_sentiments,   \* list of <<tweet, sentiment, compound>>
    sentiment_counts,   \* [positive, neutral, negative |-> count]
    all_positive,       \* the ranked lists of the last ranking
    all_negative,
    all_neutral,
    search_button,      \* analyzer.py: [enabled, text]
    chart,              \* heights of the bars on the canvas, <<>> when empty
    positive_text,      \* html of the three panels
    neutral_text,
    negative_text,
    exc,                \* exception raised in the handler call under way
    message,            \* QMessageBox shown by the handler call under way (the
                        \* warning: by the click just refused)
    calls,              \* external calls made by the handler call under way
    recall_scores,      \* analytics.py
    accuracy,
    accuracies

vars == << program, pc, argv, tweets, idx, tweet_sentiments, sentiment_counts,
           all_positive, all_negative, all_neutral, search_button, chart,
           positive_text, neutral_text, negative_text, exc, message, calls,
           recall_scores, accuracy, accuracies >>

stored    == << tweet_sentiments, sentiment_counts >>
displayed == << chart, positive_text, neutral_text, negative_text >>
ranked    == << all_positive, all_negative, all_neutral >>
metrics   == << recall_scores, accuracy, accuracies >>

----------------------------------------------------------------------------
(* Bounds *)

\* longest tweets.json the scraper leaves for analyzer.py
MaxTweets == 2
\* longest tweets.json main.py is started on
MaxFileTweets == 3

----------------------------------------------------------------------------
(* The polarity oracle: sia.polarity_scores(tweet)['compound'] *)

\* tweets the scraper returns to analyzer.py
ScrapedTexts == { "great", "fine", "meh", "bland", "awful" }

\* tweets of the tweets.json main.py reads
FileTexts == ScrapedTexts \cup { "superb", "nice", "okay", "so-so", "hmm", "poor", "weak", "bad" }

\* compound score of a tweet, in units of 0.0001
polarity_compound(tweet) ==
    CASE tweet = "superb" -> 9500
      [] tweet = "great"  -> 9000
      [] tweet = "nice"   -> 1000
      [] tweet = "fine"   -> 501
      [] tweet = "meh"    -> 500
      [] tweet = "okay"   -> 400
      [] tweet = "so-so"  -> 200
      [] tweet = "hmm"    -> -100
      [] tweet = "bland"  -> -500
      [] tweet = "poor"   -> -501
      [] tweet = "weak"   -> -600
      [] tweet = "bad"    -> -9000
      [] tweet = "awful"  -> -9900

\* A JSON element of tweets.json: a string, or a value that is no string
\* (polarity_scores raises on it: it has no .encode / .split).
JStr(t)   == << "str", t >>
NonString == << "num", "42" >>
IsStr(item) == item[1] = "str"

\* all sequences over S of length at most n
SeqUpTo(S, n) == UNION { [1..k -> S] : k \in 0..n }

ScrapedBatches == SeqUpTo({ JStr(t) : t \in ScrapedTexts } \cup { NonString }, MaxTweets)
FileBatches    == SeqUpTo({ JStr(t) : t \in FileTexts } \cup { NonString }, MaxFileTweets)

----------------------------------------------------------------------------
(* Classification *)

PosThreshold == 500
NegThreshold == -500

\* the thresholds taken as inclusive
classify_inclusive(compound) ==
    IF compound >= PosThreshold THEN "positive"
    ELSE IF compound <= NegThreshold THEN "negative"
    ELSE "neutral"

classify(compound) ==
    IF compound > PosThreshold THEN "positive"
    ELSE IF compound < NegThreshold THEN "negative"
    ELSE "neutral"

ZeroCounts == [ positive |-> 0, neutral |-> 0, negative |-> 0 ]

\* one iteration of `for tweet in tweets` on a string: the new
\* <<tweet_sentiments, sentiment_counts>>
ScoreOne(item, ts, counts) ==
    LET compound  == polarity_compound(item[2])
        sentiment == classify(compound)
    IN  << Append(ts, << item[2], sentiment, compound >>),
           [ counts EXCEPT ![sentiment] = @ + 1 ] >>

----------------------------------------------------------------------------
(* Ranking *)

Abs(x) == IF x < 0 THEN -x ELSE x

\* Python's sorted(s, key=...): stable, ascending in keys[i], the key of s[i]
StableSort(s, keys) ==
    LET n == Len(s)
        before(j, i) == keys[j] < keys[i] \/ (keys[j] = keys[i] /\ j < i)
        rank(i) == Cardinality({ j \in 1..n : before(j, i) }) + 1
    IN  [ k \in 1..n |-> s[CHOOSE i \in 1..n : rank(i) = k] ]

WithLabel(ts, label) == SelectSeq(ts, LAMBDA e : e[2] = label)

\* reverse=True left out
RankPositive_ascending(ts) ==
    LET sel == WithLabel(ts, "positive")
    IN  StableSort(sel, [ i \in 1..Len(sel) |-> sel[i][3] ])

\* sorted(..., key=lambda x: x[2], reverse=True): descending and still stable
RankPositive(ts) ==
    LET sel == WithLabel(ts, "positive")
    IN  StableSort(sel, [ i \in 1..Len(sel) |-> -sel[i][3] ])

RankNegative(ts) ==
    LET sel == WithLabel(ts, "negative")
    IN  StableSort(sel, [ i \in 1..Len(sel) |-> sel[i][3] ])

\* the neutral list taken as "everything not positive"
RankNeutral_not_positive(ts) ==
    LET sel == SelectSeq(ts, LAMBDA e : e[2] # "positive")
    IN  StableSort(sel, [ i \in 1..Len(sel) |-> Abs(sel[i][3]) ])

RankNeutral(ts) ==
    LET sel == WithLabel(ts, "neutral")
    IN  StableSort(sel, [ i \in 1..Len(sel) |-> Abs(sel[i][3]) ])

----------------------------------------------------------------------------
(* Rendering *)

\* f"{c:.2f}": sign and hundredths.  No score of the oracle above lies
\* halfway between two hundredths.
Fmt2(c) == << IF c < 0 THEN "-" ELSE "", (Abs(c) + 50) \div 100 >>

\* html is a sequence of elements [tag, score, text]
Heading(tag, title) == << [ tag |-> tag, score |-> <<>>, text |-> title ] >>
Paragraphs(list) ==
    [ i \in 1..Len(list) |->
        [ tag |-> "p", score |-> Fmt2(list[i][3]), text |-> list[i][1] ] ]
NoNeutralMsg ==
    << [ tag |-> "p", score |-> <<>>, text |-> "No se encontraron tweets neutrales." ] >>

\* Python's `a or b` on strings: a unless it is empty
PyOr(a, b) == IF a # <<>> THEN a ELSE b

\* analyzer.py: the argument of neutral_text.setHtml; + binds tighter than or
NeutralHtml(list) ==
    PyOr(Heading("h3", "Tweets Neutrales") \o Paragraphs(list), NoNeutralMsg)

\* main.py: neu_text
MainNeutralHtml(list) ==
    Heading("h2", "Tweets Neutrales") \o
        (IF list # <<>> THEN Paragraphs(list) ELSE NoNeutralMsg)

Bars(counts) == << counts.positive, counts.neutral, counts.negative >>

----------------------------------------------------------------------------
(* Text of the two input fields *)

\* str.strip(): drop leading and trailing blanks
Strip(s) ==
    LET keep == { i \in 1..Len(s) : s[i] # " " }
    IN  IF keep = {} THEN <<>>
        ELSE SubSeq(s, CHOOSE i \in keep : \A j \in keep : i <= j,
                       CHOOSE i \in keep : \A j \in keep : j <= i)

Digits == << "0", "1", "2", "3", "4", "5", "6", "7", "8", "9" >>
IsDigit(c) == \E d \in 1..10 : Digits[d] = c
DigitValue(c) == (CHOOSE d \in 1..10 : Digits[d] = c) - 1

RECURSIVE DigitsValue(_)
DigitsValue(s) ==
    IF s = <<>> THEN 0
    ELSE 10 * DigitsValue(SubSeq(s, 1, Len(s) - 1)) + DigitValue(s[Len(s)])

\* int(s) on a stripped string: << TRUE, value >>, or << FALSE, 0 >> for ValueError
ParseInt(s) ==
    LET signed == s # <<>> /\ s[1] \in { "-", "+" }
        body   == IF signed THEN Tail(s) ELSE s
    IN  IF body # <<>> /\ \A i \in 1..Len(body) : IsDigit(body[i])
        THEN << TRUE, IF signed /\ s[1] = "-" THEN -DigitsValue(body) ELSE DigitsValue(body) >>
        ELSE << FALSE, 0 >>

\* lines 160-165: anything but a positive integer becomes 1
DepthOf(depth_str) ==
    LET r == ParseInt(depth_str)
    IN  IF r[1] /\ r[2] > 0 THEN r[2] ELSE 1

\* what the user may have typed
TermInputs  == { <<>>, << " " >>, << "v" >>, << " ", "v", " " >> }
DepthInputs == { <<>>, << " ", "2" >>, << "0" >>, << "-", "1" >>, << "x" >> }

----------------------------------------------------------------------------
(* Widgets and notifications of analyzer.py *)

ReadyLabel == "Buscar y Analizar"
BusyLabel  == "Buscando..."

NoMessage == [ kind |-> "none", title |-> "", text |-> "" ]
EmptyTermWarning ==
    [ kind |-> "warning", title |-> "Error",
      text |-> "Por favor ingresa un termino de busqueda." ]
ScraperFailed ==
    [ kind |-> "critical", title |-> "Error",
      text |-> "Error al ejecutar el scraper de Nitter." ]
FileMissing ==
    [ kind |-> "critical", title |-> "Error",
      text |-> "No se encontro el archivo tweets.json." ]
Unexpected(e) ==
    [ kind |-> "critical", title |-> "Error inesperado", text |-> e ]

\* an external call is logged by what is called
Call(name) == [ name |-> name ]

\* what the file system holds when tweets.json is opened
FileStates(batches) ==
    { [ state |-> "missing", items |-> <<>> ],
      [ state |-> "malformed", items |-> <<>> ] } \cup
    { [ state |-> "ok", items |-> b ] : b \in batches }

\* tweets.json as analyzer.py and as main.py may find it
ScrapedFiles == FileStates(ScrapedBatches)
MainFiles    == FileStates(FileBatches)

\* how the scraper process may end
ScraperOutcomes == { "exit 0", "exit 1", "no node" }

----------------------------------------------------------------------------
(* Initial states *)

Blank ==
    /\ argv = <<>>
    /\ tweets = <<>>
    /\ idx = 0
    /\ tweet_sentiments = <<>>
    /\ sentiment_counts = ZeroCounts
    /\ all_positive = <<>>
    /\ all_negative = <<>>
    /\ all_neutral = <<>>
    /\ search_button = [ enabled |-> TRUE, text |-> ReadyLabel ]
    /\ chart = <<>>
    /\ positive_text = <<>>
    /\ neutral_text = <<>>
    /\ negative_text = <<>>
    /\ exc = "none"
    /\ message = NoMessage
    /\ calls = <<>>
    /\ recall_scores = <<>>
    /\ accuracy = <<>>
    /\ accuracies = <<>>

\* analyzer.py: the window after __init__, waiting for a click
InitAnalyzer == program = "analyzer" /\ pc = "idle" /\ Blank
\* main.py: about to open tweets.json
InitMain == program = "main" /\ pc = "m_load" /\ Blank
\* analytics.py: labels, cm, y_true and y_pred are built
InitAnalytics == program = "analytics" /\ pc = "a_report" /\ Blank

Init == InitAnalyzer \/ InitMain \/ InitAnalytics

----------------------------------------------------------------------------
(* analyzer.py: run_scraper_and_analyze *)

\* the button disabled before the term is validated
ClickWith_disable_first(term_text, depth_text) ==
    LET term      == Strip(term_text)
        depth_str == Strip(depth_text)
    IN  /\ program = "analyzer"
        /\ pc = "idle"
        /\ exc' = "none"
        /\ calls' = <<>>
        /\ search_button' = [ enabled |-> FALSE, text |-> BusyLabel ]
        /\ IF term = <<>>
           THEN /\ message' = EmptyTermWarning
                /\ UNCHANGED << pc, argv >>
           ELSE /\ message' = NoMessage
                /\ argv' = << term, DepthOf(depth_str) >>
                /\ pc' = "scraper"
        /\ UNCHANGED << program, tweets, idx, stored, ranked, displayed, metrics >>

\* lines 153-168: the handler is entered with these texts in the two
\* fields; it validates the term and disables the button
ClickWith(term_text, depth_text) ==
    LET term      == Strip(term_text)
        depth_str == Strip(depth_text)
    IN  /\ program = "analyzer"
        /\ pc = "idle"
        /\ exc' = "none"
        /\ calls' = <<>>
        /\ IF term = <<>>
           THEN /\ message' = EmptyTermWarning
                /\ UNCHANGED << pc, argv, search_button >>
           ELSE /\ message' = NoMessage
                /\ argv' = << term, DepthOf(depth_str) >>
                /\ search_button' = [ enabled |-> FALSE, text |-> BusyLabel ]
                /\ pc' = "scraper"
        /\ UNCHANGED << program, tweets, idx, stored, ranked, displayed, metrics >>

\* the search button is clicked (line 124 connects it to the handler)
Click ==
    /\ pc = "idle"
    /\ \E term_text \in TermInputs, depth_text \in DepthInputs :
          ClickWith(term_text, depth_text)

\* lines 176-177 kept to the list: the counts are not cleared
ResetResults_list_only ==
    /\ tweet_sentiments' = <<>>
    /\ UNCHANGED sentiment_counts

\* lines 176-177: the stored results are cleared
ResetResults ==
    /\ tweet_sentiments' = <<>>
    /\ sentiment_counts' = ZeroCounts

\* the stored results cleared before the scraper is run
RunScraperWith_reset_first(outcome) ==
    /\ program = "analyzer"
    /\ pc = "scraper"
    /\ calls' = Append(calls, Call("node scraper.js"))
    /\ argv' = <<>>
    /\ ResetResults
    /\ CASE outcome = "exit 0"   -> pc' = "load" /\ exc' = exc
         [] outcome = "exit 1"   -> pc' = "except" /\ exc' = "CalledProcessError"
         [] outcome = "no node"  -> pc' = "except" /\ exc' = "FileNotFoundError"
    /\ UNCHANGED << program, tweets, idx, ranked, search_button, displayed,
                    message, metrics >>

\* line 171: subprocess.run(["node", "scraper.js", term, str(depth)], check=True)
\* exits 0, exits non-zero, or node cannot be started at all
RunScraperWith(outcome) ==
    /\ program = "analyzer"
    /\ pc = "scraper"
    /\ calls' = Append(calls, Call("node scraper.js"))
    /\ argv' = <<>>
    /\ CASE outcome = "exit 0"   -> pc' = "load" /\ exc' = exc
         [] outcome = "exit 1"   -> pc' = "except" /\ exc' = "CalledProcessError"
         [] outcome = "no node"  -> pc' = "except" /\ exc' = "FileNotFoundError"
    /\ UNCHANGED << program, tweets, idx, stored, ranked, search_button, displayed,
                    message, metrics >>

RunScraper ==
    /\ pc = "scraper"
    /\ \E outcome \in ScraperOutcomes : RunScraperWith(outcome)

\* lines 173-177: open and parse tweets.json, then clear the stored results
LoadTweetsFrom(file) ==
    /\ program = "analyzer"
    /\ pc = "load"
    /\ calls' = Append(calls, Call("open tweets.json"))
    /\ CASE file.state = "missing" ->
              /\ exc' = "FileNotFoundError"
              /\ pc' = "except"
              /\ UNCHANGED << tweets, idx, stored >>
         [] file.state = "malformed" ->
              /\ exc' = "JSONDecodeError"
              /\ pc' = "except"
              /\ UNCHANGED << tweets, idx, stored >>
         [] file.state = "ok" ->
              /\ tweets' = file.items
              /\ idx' = 1
              /\ ResetResults
              /\ pc' = IF file.items = <<>> THEN "display" ELSE "score"
              /\ exc' = exc
    /\ UNCHANGED << program, argv, ranked, search_button, displayed, message, metrics >>

LoadTweets ==
    /\ pc = "load"
    /\ \E file \in ScrapedFiles : LoadTweetsFrom(file)

\* lines 179-189: one iteration of the scoring loop
ScoreTweet ==
    /\ program = "analyzer"
    /\ pc = "score"
    /\ IF IsStr(tweets[idx])
       THEN /\ tweet_sentiments' = ScoreOne(tweets[idx], tweet_sentiments, sentiment_counts)[1]
            /\ sentiment_counts' = ScoreOne(tweets[idx], tweet_sentiments, sentiment_counts)[2]
            /\ idx' = idx + 1
            /\ pc' = IF idx + 1 > Len(tweets) THEN "display" ELSE "score"
            /\ exc' = exc
       ELSE /\ exc' = "AttributeError"
            /\ pc' = "except"
            /\ UNCHANGED << idx, stored >>
    /\ UNCHANGED << program, argv, tweets, ranked, search_button, displayed,
                    message, calls, metrics >>

\* lines 203-225: display_results ranks the stored items, redraws the
\* chart and fills the three panels
display_results ==
    /\ calls' = Append(calls, Call("display_results"))
    /\ all_positive' = RankPositive(tweet_sentiments)
    /\ all_negative' = RankNegative(tweet_sentiments)
    /\ all_neutral' = RankNeutral(tweet_sentiments)
    /\ chart' = Bars(sentiment_counts)
    /\ positive_text' = Heading("h3", "Tweets Positivos") \o Paragraphs(all_positive')
    /\ neutral_text' = NeutralHtml(all_neutral')
    /\ negative_text' = Heading("h3", "Tweets Negativos") \o Paragraphs(all_negative')

\* line 191: the scoring loop is over and display_results is called
DisplayResults ==
    /\ program = "analyzer"
    /\ pc = "display"
    /\ display_results
    /\ pc' = "finally"
    /\ UNCHANGED << program, argv, tweets, idx, stored, search_button, exc,
                    message, metrics >>

\* the except clauses also refresh the display
ExceptHandler_refresh ==
    /\ program = "analyzer"
    /\ pc = "except"
    /\ message' = CASE exc = "CalledProcessError" -> ScraperFailed
                    [] exc = "FileNotFoundError"  -> FileMissing
                    [] OTHER                      -> Unexpected(exc)
    /\ display_results
    /\ pc' = "finally"
    /\ UNCHANGED << program, argv, tweets, idx, stored, search_button, exc, metrics >>

\* lines 193-198: the three except clauses
ExceptHandler ==
    /\ program = "analyzer"
    /\ pc = "except"
    /\ message' = CASE exc = "CalledProcessError" -> ScraperFailed
                    [] exc = "FileNotFoundError"  -> FileMissing
                    [] OTHER                      -> Unexpected(exc)
    /\ pc' = "finally"
    /\ UNCHANGED << program, argv, tweets, idx, stored, ranked, search_button,
                    displayed, exc, calls, metrics >>

\* the button re-enabled on the success path only
FinallyBlock_success_only ==
    /\ program = "analyzer"
    /\ pc = "finally"
    /\ search_button' = IF exc = "none"
                         THEN [ enabled |-> TRUE, text |-> ReadyLabel ]
                         ELSE search_button
    /\ tweets' = <<>>
    /\ idx' = 0
    /\ exc' = "none"
    /\ message' = NoMessage
    /\ calls' = <<>>
    /\ pc' = "idle"
    /\ UNCHANGED << program, argv, stored, ranked, displayed, metrics >>

\* lines 199-201: finally, then the handler returns: its locals, the
\* exception and the message box are gone
FinallyBlock ==
    /\ program = "analyzer"
    /\ pc = "finally"
    /\ search_button' = [ enabled |-> TRUE, text |-> ReadyLabel ]
    /\ tweets' = <<>>
    /\ idx' = 0
    /\ exc' = "none"
    /\ message' = NoMessage
    /\ calls' = <<>>
    /\ pc' = "idle"
    /\ UNCHANGED << program, argv, stored, ranked, displayed, metrics >>

----------------------------------------------------------------------------
(* main.py: module level, then the window *)

\* lines 47-52: open and parse tweets.json; the script has no handler, an
\* exception ends it
MainLoadFrom(file) ==
    /\ program = "main"
    /\ pc = "m_load"
    /\ CASE file.state = "missing" ->
              /\ exc' = "FileNotFoundError"
              /\ pc' = "m_crashed"
              /\ UNCHANGED << tweets, idx, stored >>
         [] file.state = "malformed" ->
              /\ exc' = "JSONDecodeError"
              /\ pc' = "m_crashed"
              /\ UNCHANGED << tweets, idx, stored >>
         [] file.state = "ok" ->
              /\ tweets' = file.items
              /\ idx' = 1
              /\ tweet_sentiments' = <<>>
              /\ sentiment_counts' = ZeroCounts
              /\ pc' = IF file.items = <<>> THEN "m_rank" ELSE "m_score"
              /\ exc' = exc
    /\ UNCHANGED << program, argv, ranked, search_button, displayed, message,
                    calls, metrics >>

MainLoad ==
    /\ pc = "m_load"
    /\ \E file \in MainFiles : MainLoadFrom(file)

\* lines 54-64: one iteration of the scoring loop
MainScore ==
    /\ program = "main"
    /\ pc = "m_score"
    /\ IF IsStr(tweets[idx])
       THEN /\ tweet_sentiments' = ScoreOne(tweets[idx], tweet_sentiments, sentiment_counts)[1]
            /\ sentiment_counts' = ScoreOne(tweets[idx], tweet_sentiments, sentiment_counts)[2]
            /\ idx' = idx + 1
            /\ pc' = IF idx + 1 > Len(tweets) THEN "m_rank" ELSE "m_score"
            /\ exc' = exc
       ELSE /\ exc' = "AttributeError"
            /\ pc' = "m_crashed"
            /\ UNCHANGED << idx, stored >>
    /\ UNCHANGED << program, argv, tweets, ranked, search_button, displayed,
                    message, calls, metrics >>

\* lines 67-69: all_positive, all_negative, all_neutral
MainRank ==
    /\ program = "main"
    /\ pc = "m_rank"
    /\ all_positive' = RankPositive(tweet_sentiments)
    /\ all_negative' = RankNegative(tweet_sentiments)
    /\ all_neutral' = RankNeutral(tweet_sentiments)
    /\ pc' = "m_window"
    /\ UNCHANGED << program, argv, tweets, idx, stored, search_button, displayed,
                    exc, message, calls, metrics >>

\* lines 80-127, 129-138: SentimentAnalysisApp.__init__ and plot_bar_chart
MainWindow ==
    /\ program = "main"
    /\ pc = "m_window"
    /\ chart' = Bars(sentiment_counts)
    /\ positive_text' = Heading("h2", "Tweets Positivos") \o Paragraphs(all_positive)
    /\ neutral_text' = MainNeutralHtml(all_neutral)
    /\ negative_text' = Heading("h2", "Tweets Negativos") \o Paragraphs(all_negative)
    /\ pc' = "m_done"
    /\ UNCHANGED << program, argv, tweets, idx, stored, ranked, search_button,
                    exc, message, calls, metrics >>

----------------------------------------------------------------------------
(* analytics.py *)

labels == << "positivo", "negativo", "neutral" >>

\* rows: real positivo, real negativo, real neutral
cm == << << 157, 26, 17 >>, << 28, 432, 40 >>, << 18, 33, 249 >> >>

\* [label] * n
Rep(label, n) == [ i \in 1..n |-> label ]

y_true == Rep("positivo", 200) \o Rep("negativo", 500) \o Rep("neutral", 300)

y_pred ==
    Rep("positivo", 160) \o Rep("negativo", 25)  \o Rep("neutral", 15)  \o
    Rep("positivo", 30)  \o Rep("negativo", 430) \o Rep("neutral", 40)  \o
    Rep("positivo", 20)  \o Rep("negativo", 35)  \o Rep("neutral", 245)

\* sklearn's unique_labels(y_true, y_pred): the labels met, sorted as strings
UniqueSorted == << "negativo", "neutral", "positivo" >>

\* a quotient is kept as << numerator, denominator >>
\* recall of a class: its samples predicted as it, over its samples
Recall(yt, yp, class) ==
    << Cardinality({ i \in 1..Len(yt) : yt[i] = class /\ yp[i] = class }),
       Cardinality({ i \in 1..Len(yt) : yt[i] = class }) >>

\* classification_report(y_true, y_pred, target_names=names, output_dict=True):
\* row k of the report is for the k-th label of UniqueSorted and is filed
\* under names[k]
ReportRecall(yt, yp, names, name) ==
    Recall(yt, yp, UniqueSorted[CHOOSE k \in 1..Len(names) : names[k] = name])

ReportAccuracy(yt, yp) ==
    << Cardinality({ i \in 1..Len(yt) : yt[i] = yp[i] }), Len(yt) >>

Sum3(row) == row[1] + row[2] + row[3]

\* lines 30-37: report, recall_scores, accuracy, total_samples
Report ==
    /\ program = "analytics"
    /\ pc = "a_report"
    /\ recall_scores' = [ k \in 1..Len(labels) |-> ReportRecall(y_true, y_pred, labels, labels[k]) ]
    /\ accuracy' = ReportAccuracy(y_true, y_pred)
    /\ accuracies' = <<>>
    /\ idx' = 1
    /\ pc' = "a_accuracy"
    /\ UNCHANGED << program, argv, tweets, stored, ranked, search_button, displayed,
                    exc, message, calls >>

\* lines 40-46: one iteration of the per-class accuracy loop (i is idx)
ClassAccuracy ==
    /\ program = "analytics"
    /\ pc = "a_accuracy"
    /\ LET total_samples == Sum3(cm[1]) + Sum3(cm[2]) + Sum3(cm[3])
           TP == cm[idx][idx]
           FP == cm[1][idx] + cm[2][idx] + cm[3][idx] - TP
           FN == Sum3(cm[idx]) - TP
           TN == total_samples - (TP + FP + FN)
       IN  accuracies' = Append(accuracies, << TP + TN, total_samples >>)
    /\ idx' = idx + 1
    /\ pc' = IF idx + 1 > Len(labels) THEN "a_plot" ELSE "a_accuracy"
    /\ UNCHANGED << program, argv, tweets, stored, ranked, search_button, displayed,
                    exc, message, calls, recall_scores, accuracy >>

\* lines 49-73: the two bar charts and the confusion matrix are shown
Plot ==
    /\ program = "analytics"
    /\ pc = "a_plot"
    /\ chart' = << recall_scores, accuracies, cm >>
    /\ pc' = "a_done"
    /\ UNCHANGED << program, argv, tweets, idx, stored, ranked, search_button,
                    positive_text, neutral_text, negative_text, exc, message,
                    calls, metrics >>

----------------------------------------------------------------------------
(* Specification *)

Next ==
    \/ Click
    \/ RunScraper
    \/ LoadTweets
    \/ ScoreTweet
    \/ DisplayResults
    \/ ExceptHandler
    \/ FinallyBlock
    \/ MainLoad
    \/ MainScore
    \/ MainRank
    \/ MainWindow
    \/ Report
    \/ ClassAccuracy
    \/ Plot

Spec == Init /\ [][Next]_vars

\* Once clicked, the handler runs to its return: every statement of it
\* completes (the scraper process and the modal message boxes end).
HandlerStep ==
    \/ RunScraper
    \/ LoadTweets
    \/ ScoreTweet
    \/ DisplayResults
    \/ ExceptHandler
    \/ FinallyBlock

\* analyzer.py alone: the window, its clicks and the handler's steps
NextAnalyzer == Click \/ HandlerStep

FairSpec == InitAnalyzer /\ [][NextAnalyzer]_vars /\ WF_vars(HandlerStep)

----------------------------------------------------------------------------
(* Vocabulary of the properties *)

Range(s) == { s[i] : i \in DOMAIN s }
BagOf(s) == [ e \in Range(s) |-> Cardinality({ i \in DOMAIN s : s[i] = e }) ]
CountLabel(ts, label) == Cardinality({ i \in DOMAIN ts : ts[i][2] = label })
Called(name) == \E i \in DOMAIN calls : calls[i].name = name

\* the ranked lists were built from the tweet_sentiments of this state
RankedNow ==
    \/ program = "analyzer" /\ pc = "finally" /\ Called("display_results")
    \/ program = "main" /\ pc \in { "m_window", "m_done" }

\* the tweets a panel lists, in order
Listed(html) ==
    LET ps == SelectSeq(html, LAMBDA el : el.tag = "p" /\ el.score # <<>>)
    IN  [ i \in 1..Len(ps) |-> ps[i].text ]

\* the tweets of ts that carry a label
TextsWith(ts, label) ==
    LET sel == SelectSeq(ts, LAMBDA e : e[2] = label)
    IN  [ i \in 1..Len(sel) |-> sel[i][1] ]

----------------------------------------------------------------------------
(* C1: every stored item is labelled positive iff its compound score is    *)
(* above 0.05, negative iff it is below -0.05 and neutral otherwise (so    *)
(* 0.05 and -0.05 are neutral), in analyzer.py and in main.py alike; the   *)
(* score is the oracle's for that tweet and the label is one of the three. *)
C1_Classification ==
    \A i \in 1..Len(tweet_sentiments) :
        LET s == tweet_sentiments[i][2]
            c == tweet_sentiments[i][3]
        IN  /\ c = polarity_compound(tweet_sentiments[i][1])
            /\ s \in { "positive", "neutral", "negative" }
            /\ (s = "positive") <=> (c > 500)
            /\ (s = "negative") <=> (c < -500)
            /\ (s = "neutral") <=> (c >= -500 /\ c <= 500)

\* analyzer.py has scored one tweet at 0.05 and one at -0.05
C1_Witness ==
    /\ program = "analyzer"
    /\ pc = "idle"
    /\ \E i, j \in 1..Len(tweet_sentiments) :
          /\ tweet_sentiments[i][3] = 500
          /\ tweet_sentiments[j][3] = -500

(* C2: whenever run_scraper_and_analyze is not running, each count of      *)
(* sentiment_counts is the number of entries of tweet_sentiments with that *)
(* label and the three counts add up to the number of entries (all zero    *)
(* when there are none), whether the calls so far succeeded or failed.     *)
C2_CountsMatchEntries ==
    (program = "analyzer" /\ pc = "idle") =>
        /\ DOMAIN sentiment_counts = { "positive", "neutral", "negative" }
        /\ \A l \in DOMAIN sentiment_counts :
              sentiment_counts[l] = CountLabel(tweet_sentiments, l)
        /\ sentiment_counts.positive + sentiment_counts.neutral
              + sentiment_counts.negative = Len(tweet_sentiments)

\* a call that failed while scoring has returned, after a call that had
\* displayed results, and left one entry behind
C2_Witness ==
    /\ program = "analyzer"
    /\ pc = "idle"
    /\ chart # <<>>
    /\ Bars(sentiment_counts) # chart
    /\ Len(tweet_sentiments) = 1

(* C3: when the three ranked lists have been built, they are pairwise      *)
(* disjoint, their lengths add up to len(tweet_sentiments) and every       *)
(* scored item is in exactly one of them, as often as it was scored        *)
(* (duplicates are kept).                                                  *)
C3_RankedPartition ==
    RankedNow =>
        /\ Range(all_positive) \cap Range(all_negative) = {}
        /\ Range(all_positive) \cap Range(all_neutral) = {}
        /\ Range(all_negative) \cap Range(all_neutral) = {}
        /\ Len(all_positive) + Len(all_negative) + Len(all_neutral)
              = Len(tweet_sentiments)
        /\ BagOf(tweet_sentiments)
              = BagOf(all_positive) (+) BagOf(all_negative) (+) BagOf(all_neutral)

\* display_results has ranked a batch that holds the same tweet twice
C3_Witness ==
    /\ program = "analyzer"
    /\ RankedNow
    /\ Len(tweet_sentiments) = 2
    /\ tweet_sentiments[1] = tweet_sentiments[2]
    /\ Len(all_neutral) = 2

(* C4: the positive list is in non-increasing order of compound score, the *)
(* negative list in non-decreasing order of compound score, the neutral    *)
(* list in non-decreasing order of the absolute value of the score.        *)
C4_RankedOrder ==
    /\ \A i, j \in 1..Len(all_positive) :
          i < j => all_positive[i][3] >= all_positive[j][3]
    /\ \A i, j \in 1..Len(all_negative) :
          i < j => all_negative[i][3] <= all_negative[j][3]
    /\ \A i, j \in 1..Len(all_neutral) :
          i < j => Abs(all_neutral[i][3]) <= Abs(all_neutral[j][3])

\* display_results had to reorder: the tweets came as 0.0501, 0.9 and are
\* ranked 0.9, 0.0501
C4_Witness ==
    /\ program = "analyzer"
    /\ RankedNow
    /\ Len(tweet_sentiments) = 2
    /\ tweet_sentiments[1][3] = 501
    /\ tweet_sentiments[2][3] = 9000
    /\ Len(all_positive) = 2
    /\ all_positive[1][3] = 9000
    /\ all_positive[2][3] = 501

(* C5 as stated: when a call that ended in CalledProcessError or in        *)
(* FileNotFoundError returns, sentiment_counts and tweet_sentiments are of *)
(* the previous successful run (the run the chart and the ranked lists     *)
(* were last built from, or the initial empty values), display_results was *)
(* not called, and the message shown tells the two failures apart.         *)
C5_KeepsLastSuccessfulRun ==
    (program = "analyzer" /\ pc = "finally"
        /\ exc \in { "CalledProcessError", "FileNotFoundError" }) =>
        /\ Bars(sentiment_counts) = (IF chart = <<>> THEN << 0, 0, 0 >> ELSE chart)
        /\ BagOf(tweet_sentiments)
              = BagOf(all_positive) (+) BagOf(all_negative) (+) BagOf(all_neutral)
        /\ ~Called("display_results")
        /\ message.kind = "critical"
        /\ (exc = "CalledProcessError") <=>
              (message.text = "Error al ejecutar el scraper de Nitter.")
        /\ (exc = "FileNotFoundError") <=>
              (message.text = "No se encontro el archivo tweets.json.")

(* C5 as amended: no step of a call that ends in CalledProcessError or in  *)
(* FileNotFoundError changes sentiment_counts, tweet_sentiments or what is *)
(* displayed, so they keep the values they had when the call began (those  *)
(* of the previous call that got as far as scoring, successful or not);    *)
(* display_results is not called and the message tells the two failures    *)
(* apart.                                                                  *)
C5_KeepsValuesAtCall ==
    /\ [][ (program = "analyzer"
              /\ (exc \in { "CalledProcessError", "FileNotFoundError" }
                    \/ exc' \in { "CalledProcessError", "FileNotFoundError" }
                    \/ pc' \in { "scraper", "load" }))
           => UNCHANGED << stored, displayed >> ]_vars
    /\ [] ((program = "analyzer" /\ pc = "finally"
              /\ exc \in { "CalledProcessError", "FileNotFoundError" }) =>
              /\ ~Called("display_results")
              /\ message.kind = "critical"
              /\ (exc = "CalledProcessError") <=>
                    (message.text = "Error al ejecutar el scraper de Nitter.")
              /\ (exc = "FileNotFoundError") <=>
                    (message.text = "No se encontro el archivo tweets.json."))

\* a call in which the scraper exited non-zero is about to return; it was
\* made after results were displayed and after a later call failed while
\* scoring
C5_Witness ==
    /\ program = "analyzer"
    /\ pc = "finally"
    /\ exc = "CalledProcessError"
    /\ chart # <<>>
    /\ Bars(sentiment_counts) # chart
    /\ Len(tweet_sentiments) = 1

C7_EmptyTermNoEffect ==
    [][ pc = "idle" =>
          \A term_text \in TermInputs, depth_text \in DepthInputs :
              ((\A i \in 1..Len(term_text) : term_text[i] = " ")
                  /\ ClickWith(term_text, depth_text))
              => /\ message'.kind = "warning"
                 /\ calls' = <<>>
                 /\ pc' = "idle"
                 /\ UNCHANGED << stored, displayed, ranked, search_button >> ]_vars

\* the warning is up over the results of an earlier run
C7_Witness ==
    /\ program = "analyzer"
    /\ pc = "idle"
    /\ message.kind = "warning"
    /\ calls = <<>>
    /\ chart # <<>>
    /\ Len(tweet_sentiments) = 2

(* C8 as stated: the recall the script reports for positivo is 0.785 and   *)
(* the global accuracy it reports is 0.838.                                *)
C8_ReportedMetrics ==
    (program = "analytics" /\ pc = "a_done") =>
        /\ recall_scores[1][1] * 1000 = 785 * recall_scores[1][2]
        /\ accuracy[1] * 1000 = 838 * accuracy[2]

(* C9 as stated: whenever the handler is not executing, the chart and the  *)
(* panels show the initial empty state or the complete results of one      *)
(* run, and the stored results are those same results: nothing stored      *)
(* comes from another run than what is shown.                              *)
C9_StoredIsDisplayed ==
    (program = "analyzer" /\ pc = "idle") =>
        /\ Bars(sentiment_counts) = (IF chart = <<>> THEN << 0, 0, 0 >> ELSE chart)
        /\ BagOf(TextsWith(tweet_sentiments, "positive")) = BagOf(Listed(positive_text))
        /\ BagOf(TextsWith(tweet_sentiments, "neutral")) = BagOf(Listed(neutral_text))
        /\ BagOf(TextsWith(tweet_sentiments, "negative")) = BagOf(Listed(negative_text))

(* C9 as amended: the chart and the panels change only when a run has      *)
(* scored every tweet it loaded, and then show exactly that run: the bars  *)
(* are the numbers of its tweets per category and each panel lists its     *)
(* tweets of that category.  So what is displayed is always the initial    *)
(* empty state or the complete results of one run.                         *)
C9_DisplayIsOneWholeRun ==
    [][ (program = "analyzer" /\ displayed' # displayed) =>
          /\ Len(tweet_sentiments') = Len(tweets)
          /\ \A i \in 1..Len(tweets) :
                tweets[i] = << "str", tweet_sentiments'[i][1] >>
          /\ chart' = << CountLabel(tweet_sentiments', "positive"),
                         CountLabel(tweet_sentiments', "neutral"),
                         CountLabel(tweet_sentiments', "negative") >>
          /\ BagOf(Listed(positive_text')) = BagOf(TextsWith(tweet_sentiments', "positive"))
          /\ BagOf(Listed(neutral_text')) = BagOf(TextsWith(tweet_sentiments', "neutral"))
          /\ BagOf(Listed(negative_text')) = BagOf(TextsWith(tweet_sentiments', "negative"))
      ]_vars

\* a run failed while scoring its second tweet: its first tweet is stored,
\* the two tweets of the run before are still displayed
C9_Witness ==
    /\ program = "analyzer"
    /\ pc = "idle"
    /\ Len(tweet_sentiments) = 1
    /\ chart = << 0, 0, 2 >>
    /\ sentiment_counts.positive = 1
    /\ Len(Listed(negative_text)) = 2

(* C10 as stated: when the lists are displayed and the neutral list is     *)
(* empty, the neutral panel shows "No se encontraron tweets neutrales.";   *)
(* an empty positive or negative list leaves its panel with the heading    *)
(* alone.                                                                  *)
C10_EmptyNeutralMessage ==
    (RankedNow /\ pc \in { "finally", "m_done" }) =>
        /\ (all_neutral = <<>>) =>
              \E i \in DOMAIN neutral_text :
                  neutral_text[i].text = "No se encontraron tweets neutrales."
        /\ (all_positive = <<>>) => Len(positive_text) = 1
        /\ (all_negative = <<>>) => Len(negative_text) = 1

=============================================================================
